---- MODULE Spec2Model ----
(***************************************************************************)
(* A model of the line sorter of src/main.rs: the column extractor, the    *)
(* value parsers, the four sort forms, the three check forms and main().   *)
(*                                                                         *)
(* A Rust String is modelled as a sequence of characters, each character   *)
(* a one-character TLA+ string; its byte length (String::len) is the sum   *)
(* of the UTF-8 widths of its characters.  An f64 is modelled exactly as a *)
(* record: a finite value m * 10^e, an infinity, or NaN.  The keys of the  *)
(* model use only decimals that f64 represents exactly, so f64 rounding    *)
(* never decides a comparison of the model.                                *)
(***************************************************************************)
EXTENDS Integers, Sequences, FiniteSets, TLC

VARIABLES
    pc,        \* where main() is: "start", "parsed", "rejected", "loaded", ...
    args,      \* the flags and the -k value given on the command line
    lines,     \* main's `lines` vector
    input,     \* `lines` as it entered the sort or the check (history)
    sorted,    \* `lines` as the sort form left it (history)
    output,    \* the content written to sorted_<filename>, a character sequence
    written,   \* whether the output file was written
    verdict,   \* the line printed by check mode, "" if none
    panic,     \* the panic message of an aborted run, "" if none
    call,      \* the arguments of a call of a pure function under test
    ret        \* its result

vars == <<pc, args, lines, input, sorted, output, written, verdict, panic, call, ret>>

-----------------------------------------------------------------------------
(* Bounds of the model. *)

\* The longest file, in lines.
MaxLines == 3

\* The longest key handed to a parser under test, in characters.
MaxKeyLen == 3

-----------------------------------------------------------------------------
(* Characters and strings. *)

\* The one non-ASCII character of the model: U+00E9, two bytes in UTF-8.
EAcute == "é"

Printable ==
    <<" ", "!", "\"", "#", "$", "%", "&", "'", "(", ")", "*", "+", ",", "-", ".", "/",
      "0", "1", "2", "3", "4", "5", "6", "7", "8", "9", ":", ";", "<", "=", ">", "?",
      "@", "A", "B", "C", "D", "E", "F", "G", "H", "I", "J", "K", "L", "M", "N", "O",
      "P", "Q", "R", "S", "T", "U", "V", "W", "X", "Y", "Z", "[", "\\", "]", "^", "_",
      "U+0060", "a", "b", "c", "d", "e", "f", "g", "h", "i", "j", "k", "l", "m", "n", "o",
      "p", "q", "r", "s", "t", "u", "v", "w", "x", "y", "z", "{", "|", "}", "~">>

\* The code point of a character; UTF-8 byte order is code point order.  (The grave
\* accent, which a TLA+ string cannot hold, is written U+0060 in Printable.)
AsciiCode ==
    [c \in {Printable[i] : i \in 1..Len(Printable)} |->
        31 + (CHOOSE i \in 1..Len(Printable) : Printable[i] = c)]

CodePoint(c) ==
    IF c = "\t" THEN 9
    ELSE IF c = EAcute THEN 233
    ELSE AsciiCode[c]

\* The number of bytes of a character in UTF-8.
Utf8Len(c) == IF CodePoint(c) < 128 THEN 1 ELSE 2

RECURSIVE ByteLen(_)
\* String::len: the length in bytes.
ByteLen(s) == IF s = <<>> THEN 0 ELSE Utf8Len(Head(s)) + ByteLen(Tail(s))

\* char::is_whitespace, restricted to the characters of the model.
Whitespace == {" ", "\t"}

IsWhitespace(c) == c \in Whitespace

Digit == {"0", "1", "2", "3", "4", "5", "6", "7", "8", "9"}

DigitVal(c) == CodePoint(c) - 48

\* Ord for str: lexicographic by bytes.
RECURSIVE StrLt(_, _)
StrLt(a, b) ==
    IF b = <<>> THEN FALSE
    ELSE IF a = <<>> THEN TRUE
    ELSE IF Head(a) # Head(b) THEN CodePoint(Head(a)) < CodePoint(Head(b))
    ELSE StrLt(Tail(a), Tail(b))

\* str::contains: pat occurs in s as a substring.
Contains(s, pat) ==
    \E i \in 1..(Len(s) - Len(pat) + 1) : SubSeq(s, i, i + Len(pat) - 1) = pat

RECURSIVE TrimEnd(_)
\* str::trim_end: drop the trailing whitespace.
TrimEnd(s) ==
    IF s # <<>> /\ IsWhitespace(s[Len(s)]) THEN TrimEnd(SubSeq(s, 1, Len(s) - 1)) ELSE s

\* The index of the first character of s in set cs, 0 if none.
FirstIn(s, cs) ==
    IF \A i \in 1..Len(s) : s[i] \notin cs THEN 0
    ELSE CHOOSE i \in 1..Len(s) : s[i] \in cs /\ \A j \in 1..(i - 1) : s[j] \notin cs

RECURSIVE SplitWhitespace(_)
\* The token s starts with, which ends before index stop (0: at the end of s), and
\* the tokens after it.
TokenThenRest(s, stop) ==
    IF stop = 0 THEN <<s>>
    ELSE <<SubSeq(s, 1, stop - 1)>> \o SplitWhitespace(SubSeq(s, stop, Len(s)))

\* str::split_whitespace: the maximal runs of non-whitespace characters, in order.
SplitWhitespace(s) ==
    IF s = <<>> THEN <<>>
    ELSE IF IsWhitespace(Head(s)) THEN SplitWhitespace(Tail(s))
    ELSE TokenThenRest(s, FirstIn(s, Whitespace))

-----------------------------------------------------------------------------
(* f64 values. *)

RECURSIVE Norm(_, _)
\* The finite value m * 10^e, in normal form: m = 0 and e = 0, or 10 does not divide m.
Norm(m, e) ==
    IF m = 0 THEN [k |-> "fin", m |-> 0, e |-> 0]
    ELSE IF m % 10 = 0 THEN Norm(m \div 10, e + 1)
    ELSE [k |-> "fin", m |-> m, e |-> e]

NaN == [k |-> "nan", m |-> 0, e |-> 0]

PosInf == [k |-> "inf", m |-> 1, e |-> 0]

NegInf == [k |-> "inf", m |-> -1, e |-> 0]

\* f64::MIN, -1.7976931348623157e308, its mantissa cut to nine digits.
F64_MIN == [k |-> "fin", m |-> -179769313, e |-> 300]

\* The result of a failed str::parse::<f64>.
ParseErr == [k |-> "err", m |-> 0, e |-> 0]

\* The outcome of a parser that panicked.
ParsePanic == [k |-> "panic", m |-> 0, e |-> 0]

RECURSIVE NumDigits(_)
NumDigits(n) == IF n < 10 THEN 1 ELSE 1 + NumDigits(n \div 10)

RECURSIVE Pow10(_)
Pow10(n) == IF n = 0 THEN 1 ELSE 10 * Pow10(n - 1)

\* ma * 10^ea < mb * 10^eb, for ma, mb > 0.
MagLt(ma, ea, mb, eb) ==
    LET da == NumDigits(ma) + ea
        db == NumDigits(mb) + eb
        lo == IF ea < eb THEN ea ELSE eb
    IN IF da # db THEN da < db
       ELSE ma * Pow10(ea - lo) < mb * Pow10(eb - lo)

\* a < b for two f64 values; false when either is NaN.
FLt(a, b) ==
    IF a.k = "nan" \/ b.k = "nan" THEN FALSE
    ELSE IF a.k = "inf" THEN a.m < 0 /\ ~(b.k = "inf" /\ b.m < 0)
    ELSE IF b.k = "inf" THEN b.m > 0
    ELSE IF a.m <= 0 /\ b.m <= 0
         THEN a.m # b.m /\ (a.m = 0 => FALSE) /\ (b.m = 0 \/ MagLt(-b.m, b.e, -a.m, a.e))
    ELSE IF a.m <= 0 THEN TRUE
    ELSE IF b.m <= 0 THEN FALSE
    ELSE MagLt(a.m, a.e, b.m, b.e)

\* f64::partial_cmp: "None" when either value is NaN.
PartialCmp(a, b) ==
    IF a.k = "nan" \/ b.k = "nan" THEN "None"
    ELSE IF FLt(a, b) THEN "Less"
    ELSE IF FLt(b, a) THEN "Greater"
    ELSE "Equal"

\* a * 10^n for a power of ten, as the `number_part * 1_000.0` of parse_with_suffix.
Scale(a, n) == IF a.k = "fin" THEN Norm(a.m, a.e + n) ELSE a

RECURSIVE DigitsVal(_)
\* The number a sequence of decimal digits writes.
DigitsVal(s) ==
    IF s = <<>> THEN 0 ELSE 10 * DigitsVal(SubSeq(s, 1, Len(s) - 1)) + DigitVal(s[Len(s)])

AllDigits(s) == \A i \in 1..Len(s) : s[i] \in Digit

\* ASCII lower case of the letters that spell inf, infinity and nan.
Lower(c) ==
    CASE c = "I" -> "i" [] c = "N" -> "n" [] c = "F" -> "f" [] c = "T" -> "t"
      [] c = "Y" -> "y" [] c = "A" -> "a" [] OTHER -> c

LowerStr(s) == [i \in 1..Len(s) |-> Lower(s[i])]

\* str::parse::<f64> is [sign] (inf | infinity | nan | digits [. digits] [e [sign] digits]),
\* the words in any case and at least one digit in the mantissa.  The operators below
\* are its stages, the last first.

\* The value of the mantissa digits whole.frac and the exponent, once the parts are
\* known to be digits: exp_neg and exp_digits are the exponent's sign and digits.
DecimalValue(neg, whole, frac, exp_neg, exp_digits) ==
    Norm((IF neg THEN -1 ELSE 1) * DigitsVal(whole \o frac),
         (IF exp_neg THEN -1 ELSE 1) * DigitsVal(exp_digits) - Len(frac))

\* The mantissa split at its point, the exponent at its sign.
ParseParts(neg, whole, frac, has_exp, exp_neg, exp_digits) ==
    IF /\ AllDigits(whole) /\ AllDigits(frac) /\ Len(whole) + Len(frac) > 0
       /\ AllDigits(exp_digits) /\ (has_exp => exp_digits # <<>>)
    THEN DecimalValue(neg, whole, frac, exp_neg, exp_digits)
    ELSE ParseErr

\* The mantissa, with its point at index dot (0: none), and the exponent (after the e).
ParseMantissa(neg, mant, dot, has_exp, expo) ==
    ParseParts(neg,
               IF dot = 0 THEN mant ELSE SubSeq(mant, 1, dot - 1),
               IF dot = 0 THEN <<>> ELSE SubSeq(mant, dot + 1, Len(mant)),
               has_exp,
               expo # <<>> /\ expo[1] = "-",
               IF expo # <<>> /\ expo[1] \in {"+", "-"} THEN Tail(expo) ELSE expo)

\* A decimal, its e at index e_pos of body (0: none).
ParseDecimal(neg, body, e_pos) ==
    ParseMantissa(neg,
                  IF e_pos = 0 THEN body ELSE SubSeq(body, 1, e_pos - 1),
                  FirstIn(IF e_pos = 0 THEN body ELSE SubSeq(body, 1, e_pos - 1), {"."}),
                  e_pos # 0,
                  IF e_pos = 0 THEN <<>> ELSE SubSeq(body, e_pos + 1, Len(body)))

\* The text after the sign; word is body in lower case.
ParseUnsigned(neg, body, word) ==
    IF word = <<"n", "a", "n">> THEN NaN
    ELSE IF word = <<"i", "n", "f">> \/ word = <<"i", "n", "f", "i", "n", "i", "t", "y">>
    THEN IF neg THEN NegInf ELSE PosInf
    ELSE ParseDecimal(neg, body, FirstIn(body, {"e", "E"}))

StripSign(s) == IF s # <<>> /\ s[1] \in {"+", "-"} THEN Tail(s) ELSE s

StripPlus(s) == IF s # <<>> /\ s[1] = "+" THEN Tail(s) ELSE s

\* str::parse::<f64>; ParseErr when s is no number.
ParseF64(s) == ParseUnsigned(s # <<>> /\ s[1] = "-", StripSign(s), LowerStr(StripSign(s)))

\* Result::unwrap_or.
unwrap_or(v, default) == IF v.k = "err" THEN default ELSE v

\* `a.parse().unwrap_or(f64::MIN)`, the plain numeric parse.
parse_numeric(s) == unwrap_or(ParseF64(s), F64_MIN)

\* The match of parse_with_suffix on the last character.
ApplySuffix(number_part, suffix) ==
    CASE suffix \in {"K", "k"} -> Scale(number_part, 3)
      [] suffix \in {"M", "m"} -> Scale(number_part, 6)
      [] suffix \in {"G", "g"} -> Scale(number_part, 9)
      [] OTHER -> number_part

\* parse_with_suffix on s of len bytes.  `s[..len-1]` slices at a byte index: it panics
\* when that index is inside a character, which it is when the last character is wider
\* than a byte.
ParseWithSuffixOfLen(s, len) ==
    IF len = 0 THEN F64_MIN
    ELSE IF len = 1 THEN parse_numeric(s)
    ELSE IF Utf8Len(s[Len(s)]) # 1 THEN ParsePanic
    ELSE ApplySuffix(unwrap_or(ParseF64(SubSeq(s, 1, Len(s) - 1)), Norm(0, 0)), s[Len(s)])

parse_with_suffix(s) == ParseWithSuffixOfLen(s, ByteLen(s))

-----------------------------------------------------------------------------
(* The column extractor and the month rank. *)

\* Option<usize>::None, the column when the -k value is not a number.
NoColumn == -1

\* What a function that may panic gives: its value, or the panic's message.
Ok(v) == [ok |-> TRUE, v |-> v, msg |-> ""]

Panicked(msg) == [ok |-> FALSE, v |-> <<>>, msg |-> msg]

OverflowMsg == "attempt to subtract with overflow"

UnwrapMsg == "called Option::unwrap() on a None value"

BoundaryMsg == "byte index is not a char boundary"

\* `.nth(col - 1)` and `.unwrap_or(line)`, for col >= 1.
NthOr(tokens, col, line) == IF col <= Len(tokens) THEN tokens[col] ELSE line

\* get_column_value.  `col - 1` on a usize of 0 panics in a build with overflow checks
\* (the dev profile) and wraps to usize::MAX in a build without (the release profile),
\* where nth(usize::MAX) finds no token.
get_column_value(line, column, overflow_checks) ==
    IF column = NoColumn THEN Ok(line)
    ELSE IF column = 0 THEN IF overflow_checks THEN Panicked(OverflowMsg) ELSE Ok(line)
    ELSE Ok(NthOr(SplitWhitespace(line), column, line))

MONTHS ==
    << <<"J", "a", "n">>, <<"F", "e", "b">>, <<"M", "a", "r">>, <<"A", "p", "r">>,
       <<"M", "a", "y">>, <<"J", "u", "n">>, <<"J", "u", "l">>, <<"A", "u", "g">>,
       <<"S", "e", "p">>, <<"O", "c", "t">>, <<"N", "o", "v">>, <<"D", "e", "c">> >>

\* A rank by the abbreviation that occurs first in the key, not first in the list.
month_position_in_key(value) ==
    IF \A i \in 1..Len(MONTHS) : ~Contains(value, MONTHS[i]) THEN 13
    ELSE (CHOOSE i \in 1..Len(MONTHS) :
             \E at \in 1..(Len(value) - 2) :
                /\ SubSeq(value, at, at + 2) = MONTHS[i]
                /\ \A j \in 1..Len(MONTHS) :
                      ~Contains(SubSeq(value, 1, at + 1), MONTHS[j])) - 1

\* `MONTHS.iter().position(|&month| value.contains(month)).unwrap_or(13)`.
month_position(value) ==
    IF \A i \in 1..Len(MONTHS) : ~Contains(value, MONTHS[i]) THEN 13
    ELSE (CHOOSE i \in 1..Len(MONTHS) :
             /\ Contains(value, MONTHS[i])
             /\ \A j \in 1..(i - 1) : ~Contains(value, MONTHS[j])) - 1

-----------------------------------------------------------------------------
(* The sort forms. *)

\* The permutations of 1..n.
Perms ==
    [n \in 0..MaxLines |-> {p \in [1..n -> 1..n] : \A i, j \in 1..n : p[i] = p[j] => i = j}]

\* The strict order of the values a sort compares: f64 by partial_cmp, usize and
\* String by Ord.
Less(order, a, b) ==
    CASE order = "f64" -> FLt(a, b)
      [] order = "usize" -> a < b
      [] order = "String" -> StrLt(a, b)

\* A sort whose comparator is the wrong way round: non-increasing order.
SortUnstableDescending(v, vals, order) ==
    {[i \in 1..Len(v) |-> v[p[i]]] :
        p \in {q \in Perms[Len(v)] :
                  \A i \in 1..(Len(v) - 1) : ~Less(order, vals[q[i]], vals[q[i + 1]])}}

\* slice::sort_unstable_by / sort_unstable_by_key on v, whose elements have the values
\* vals: any arrangement of v in non-decreasing order of value.
SortUnstable(v, vals, order) ==
    {[i \in 1..Len(v) |-> v[p[i]]] :
        p \in {q \in Perms[Len(v)] :
                  \A i \in 1..(Len(v) - 1) : ~Less(order, vals[q[i + 1]], vals[q[i]])}}

\* get_column_value on every line.
Keys(v, column, overflow_checks) ==
    [i \in 1..Len(v) |-> get_column_value(v[i], column, overflow_checks)]

\* The panics a sort by f64 values can end in: `partial_cmp(..).unwrap()` on a NaN, and
\* the slice of parse_with_suffix.  Which one ends the sort, when both are there,
\* depends on the order of the comparisons.
FloatPanics(vals) ==
    {m \in {BoundaryMsg, UnwrapMsg} :
        \E i \in 1..Len(vals) : vals[i].k = (IF m = BoundaryMsg THEN "panic" ELSE "nan")}

\* A sort by f64 values, every key extracted.
SortFloats(v, vals) ==
    IF FloatPanics(vals) # {} THEN {Panicked(m) : m \in FloatPanics(vals)}
    ELSE {Ok(w) : w \in SortUnstable(v, vals, "f64")}

\* sort_by_numeric on the keys: the set of its possible outcomes.  A slice of fewer than
\* two elements is returned as it is, the comparator never called; in a longer one
\* every element is compared at least once.
SortNumericKeys(v, keys) ==
    IF Len(v) < 2 THEN {Ok(v)}
    ELSE IF \E i \in 1..Len(v) : ~keys[i].ok THEN {Panicked(OverflowMsg)}
    ELSE SortFloats(v, [i \in 1..Len(v) |-> parse_numeric(keys[i].v)])

sort_by_numeric(v, column, overflow_checks) ==
    SortNumericKeys(v, Keys(v, column, overflow_checks))

SortMonthKeys(v, keys) ==
    IF Len(v) < 2 THEN {Ok(v)}
    ELSE IF \E i \in 1..Len(v) : ~keys[i].ok THEN {Panicked(OverflowMsg)}
    ELSE {Ok(w) : w \in SortUnstable(v, [i \in 1..Len(v) |-> month_position(keys[i].v)], "usize")}

sort_by_month(v, column, overflow_checks) ==
    SortMonthKeys(v, Keys(v, column, overflow_checks))

SortSuffixKeys(v, keys) ==
    IF Len(v) < 2 THEN {Ok(v)}
    ELSE IF \E i \in 1..Len(v) : ~keys[i].ok THEN {Panicked(OverflowMsg)}
    ELSE SortFloats(v, [i \in 1..Len(v) |-> parse_with_suffix(keys[i].v)])

sort_by_suffix(v, column, overflow_checks) ==
    SortSuffixKeys(v, Keys(v, column, overflow_checks))

SortStringKeys(v, keys) ==
    IF Len(v) < 2 THEN {Ok(v)}
    ELSE IF \E i \in 1..Len(v) : ~keys[i].ok THEN {Panicked(OverflowMsg)}
    ELSE {Ok(w) : w \in SortUnstable(v, [i \in 1..Len(v) |-> keys[i].v], "String")}

sort_by_string(v, column, overflow_checks) ==
    SortStringKeys(v, Keys(v, column, overflow_checks))

-----------------------------------------------------------------------------
(* The check forms. *)

\* A check form that forgets `reversed`: always the ascending test.
CompareFloatsAscending(num_a, num_b, reversed) ==
    IF FLt(num_a, num_b) THEN "fail" ELSE "pass"

\* The body of the loops of the check forms on values num_a (of lines[i]) and num_b (of
\* lines[i-1]): "fail" where the loop returns false, "pass" where it goes on.
CompareFloats(num_a, num_b, reversed) ==
    IF ~reversed /\ FLt(num_a, num_b) THEN "fail"
    ELSE IF reversed /\ FLt(num_b, num_a) THEN "fail"
    ELSE "pass"

\* One turn of the loop of check_sorted_by_numeric, a and b the keys of the pair: how
\* it ends, or the message of its panic.
NumericPair(a, b, reversed) ==
    IF ~a.ok \/ ~b.ok THEN OverflowMsg
    ELSE CompareFloats(parse_numeric(a.v), parse_numeric(b.v), reversed)

MonthPair(a, b, reversed) ==
    IF ~a.ok \/ ~b.ok THEN OverflowMsg
    ELSE IF ~reversed /\ month_position(a.v) < month_position(b.v) THEN "fail"
    ELSE IF reversed /\ month_position(b.v) < month_position(a.v) THEN "fail"
    ELSE "pass"

SuffixValues(num_a, num_b, reversed) ==
    IF num_a.k = "panic" \/ num_b.k = "panic" THEN BoundaryMsg
    ELSE CompareFloats(num_a, num_b, reversed)

SuffixPair(a, b, reversed) ==
    IF ~a.ok \/ ~b.ok THEN OverflowMsg
    ELSE SuffixValues(parse_with_suffix(a.v), parse_with_suffix(b.v), reversed)

\* `for i in 1..lines.len()` over the turns: false at the first turn that fails, the
\* panic of the first turn that panics, true when every turn passes.
LoopResult(turns) ==
    IF \A i \in 1..Len(turns) : turns[i] = "pass" THEN Ok(TRUE)
    ELSE LET first == CHOOSE i \in 1..Len(turns) :
                          turns[i] # "pass" /\ \A j \in 1..(i - 1) : turns[j] = "pass"
         IN IF turns[first] = "fail" THEN Ok(FALSE) ELSE Panicked(turns[first])

check_sorted_by_numeric(v, column, reversed, overflow_checks) ==
    LoopResult([i \in 1..(Len(v) - 1) |->
                   NumericPair(get_column_value(v[i + 1], column, overflow_checks),
                               get_column_value(v[i], column, overflow_checks), reversed)])

check_sorted_by_month(v, column, reversed, overflow_checks) ==
    LoopResult([i \in 1..(Len(v) - 1) |->
                   MonthPair(get_column_value(v[i + 1], column, overflow_checks),
                             get_column_value(v[i], column, overflow_checks), reversed)])

check_sorted_by_suffix(v, column, reversed, overflow_checks) ==
    LoopResult([i \in 1..(Len(v) - 1) |->
                   SuffixPair(get_column_value(v[i + 1], column, overflow_checks),
                              get_column_value(v[i], column, overflow_checks), reversed)])

-----------------------------------------------------------------------------
(* Vec::dedup, slice::reverse and join. *)

RECURSIVE dedup_all(_)
\* A dedup that drops every later copy of a line, adjacent or not.
dedup_all(v) ==
    IF v = <<>> THEN <<>>
    ELSE IF \E i \in 1..(Len(v) - 1) : v[i] = v[Len(v)]
    THEN dedup_all(SubSeq(v, 1, Len(v) - 1))
    ELSE Append(dedup_all(SubSeq(v, 1, Len(v) - 1)), v[Len(v)])

RECURSIVE dedup_by_first_token(_)
\* A dedup by key: a line is dropped when its first token is that of the line kept
\* just before it.
dedup_by_first_token(v) ==
    IF Len(v) < 2 THEN v
    ELSE LET kept == dedup_by_first_token(SubSeq(v, 1, Len(v) - 1))
         IN IF get_column_value(kept[Len(kept)], 1, FALSE)
                  = get_column_value(v[Len(v)], 1, FALSE)
            THEN kept
            ELSE Append(kept, v[Len(v)])

\* Vec::dedup keeps an element unless it equals the one kept just before it.
PushUnlessSame(kept, x) ==
    IF kept # <<>> /\ kept[Len(kept)] = x THEN kept ELSE Append(kept, x)

RECURSIVE dedup(_)
\* Vec::dedup.
dedup(v) ==
    IF v = <<>> THEN <<>> ELSE PushUnlessSame(dedup(SubSeq(v, 1, Len(v) - 1)), v[Len(v)])

\* slice::reverse.
reverse(v) == [i \in 1..Len(v) |-> v[Len(v) + 1 - i]]

RECURSIVE join(_, _)
\* `lines.join("\n")`: the lines with sep between each two.
join(v, sep) ==
    IF v = <<>> THEN <<>>
    ELSE IF Len(v) = 1 THEN v[1]
    ELSE v[1] \o sep \o join(Tail(v), sep)

-----------------------------------------------------------------------------
(* main(): the command line. *)

FlagNames == {"n", "r", "u", "M", "b", "c", "h"}

\* conflicts_with_all / conflicts_with, as declared: n with M and h, M with h.
Conflicts == {<<"n", "M">>, <<"n", "h">>, <<"M", "h">>}

\* requires_all, as declared: c requires M, h and n.
Requires == {<<"c", "M">>, <<"c", "h">>, <<"c", "n">>}

ConflictsWith(x, y) == <<x, y>> \in Conflicts \/ <<y, x>> \in Conflicts

\* A validation that checks what is required and not what conflicts.
ClapAcceptsRequiresOnly(flags) ==
    \A rule \in Requires :
       rule[1] \in flags /\ rule[2] \notin flags
           => \E x \in flags : ConflictsWith(rule[2], x)

\* get_matches on the flags given: clap rejects two present flags that conflict (in
\* either direction), and a flag required by a present one and missing, unless the
\* missing flag conflicts with a present one (clap: "conflicting rules take
\* precedence over being required").
ClapAccepts(flags) ==
    /\ \A x, y \in flags : ~ConflictsWith(x, y)
    /\ \A rule \in Requires :
          rule[1] \in flags /\ rule[2] \notin flags
              => \E x \in flags : ConflictsWith(rule[2], x)

\* The values of -k of the model: the default, two more indexes and a non-number.
KArgs == {<<"1">>, <<"2">>, <<"0">>, <<"x">>}

\* `c.parse::<usize>().ok()`: an optional + and digits.
ParseUsize(s) ==
    IF StripPlus(s) # <<>> /\ AllDigits(StripPlus(s)) THEN DigitsVal(StripPlus(s))
    ELSE NoColumn

\* The flags main reads with get_flag, and the column.
reverse_flag == "r" \in args.flags
unique == "u" \in args.flags
numeric == "n" \in args.flags
month == "M" \in args.flags
suffix == "h" \in args.flags
check_sorted == "c" \in args.flags
ignore_spaces == "b" \in args.flags
column == ParseUsize(args.k)

\* The ordering mode of a set of flags: the branch the if / else if chain of the
\* sort takes.
ModeOf(flags) ==
    IF "n" \in flags THEN "Numeric"
    ELSE IF "M" \in flags THEN "MonthName"
    ELSE IF "h" \in flags THEN "SuffixScaled"
    ELSE "Lexicographic"

\* The lines a file of the model is made of, by the ordering mode they exercise.
FileLines(mode) ==
    CASE mode = "Numeric" ->
            {<<"1", "0">>, <<"9">>, <<"9", " ", "x">>, <<"N", "a", "N">>}
      [] mode = "MonthName" ->
            {<<"D", "e", "c", "J", "a", "n">>, <<"S", "e", "p">>, <<"x">>,
             <<"F", "e", "b", " ", "x">>}
      [] mode = "SuffixScaled" ->
            {<<"1", "0">>, <<"9">>, <<"5", "K">>, <<"5", EAcute>>}
      [] OTHER ->
            {<<"b">>, <<"a">>, <<"a", " ", "b">>, <<"a", " ">>}

Files(mode) == UNION {[1..n -> FileLines(mode)] : n \in 0..MaxLines}

-----------------------------------------------------------------------------
(* main(): its steps. *)

NotCalled == [k |-> "none", m |-> 0, e |-> 0]

Init ==
    /\ pc = "start"
    /\ args = [flags |-> {}, k |-> <<"1">>]
    /\ lines = <<>> /\ input = <<>> /\ sorted = <<>>
    /\ output = <<>> /\ written = FALSE /\ verdict = "" /\ panic = ""
    /\ call = [fn |-> "main", s |-> <<>>, column |-> NoColumn]
    /\ ret = NotCalled

\* Lines 128-169: clap parses the command line and exits on an invalid one.
ParseArgs ==
    /\ pc = "start"
    /\ \E flags \in SUBSET FlagNames, k \in KArgs :
          /\ args' = [flags |-> flags, k |-> k]
          /\ pc' = IF ClapAccepts(flags) THEN "parsed" ELSE "rejected"
    /\ UNCHANGED <<lines, input, sorted, output, written, verdict, panic, call, ret>>

\* Line 172: File::open fails and main returns the error.
OpenFails ==
    /\ pc = "parsed"
    /\ pc' = "io_error"
    /\ UNCHANGED <<args, lines, input, sorted, output, written, verdict, panic, call, ret>>

\* Lines 185-187: every line trimmed under -b.
TrimIf(file, on) == IF on THEN [i \in 1..Len(file) |-> TrimEnd(file[i])] ELSE file

\* Lines 172-187: the lines of the file are read, and trimmed under -b.
Load ==
    /\ pc = "parsed"
    /\ \E file \in Files(ModeOf(args.flags)) :
          /\ lines' = TrimIf(file, ignore_spaces)
          /\ input' = TrimIf(file, ignore_spaces)
    /\ pc' = "loaded"
    /\ UNCHANGED <<args, sorted, output, written, verdict, panic, call, ret>>

\* Lines 190-202 on `sorted`: true, then the answer of each check form whose flag is
\* set, the later replacing the earlier; a panic ends them.
IfNumeric(v, overflow_checks) ==
    IF numeric THEN check_sorted_by_numeric(v, column, reverse_flag, overflow_checks)
    ELSE Ok(TRUE)

IfMonth(before, v, overflow_checks) ==
    IF before.ok /\ month
    THEN check_sorted_by_month(v, column, reverse_flag, overflow_checks)
    ELSE before

IfSuffix(before, v, overflow_checks) ==
    IF before.ok /\ suffix
    THEN check_sorted_by_suffix(v, column, reverse_flag, overflow_checks)
    ELSE before

CheckVerdict(v, overflow_checks) ==
    IfSuffix(IfMonth(IfNumeric(v, overflow_checks), v, overflow_checks), v, overflow_checks)

\* Lines 189-210: check mode.
Check ==
    /\ pc = "loaded"
    /\ check_sorted
    /\ \E overflow_checks \in BOOLEAN :
          \E r \in {CheckVerdict(lines, overflow_checks)} :
             IF r.ok
             THEN /\ verdict' = IF r.v THEN "Lines are sorted." ELSE "Lines are not sorted."
                  /\ pc' = "done"
                  /\ panic' = panic
             ELSE /\ panic' = r.msg
                  /\ pc' = "panicked"
                  /\ verdict' = verdict
    /\ UNCHANGED <<args, lines, input, sorted, output, written, call, ret>>

\* The outcomes of lines 212-220: the sort form of the first flag set.
SortOutcomes(v, overflow_checks) ==
    IF numeric THEN sort_by_numeric(v, column, overflow_checks)
    ELSE IF month THEN sort_by_month(v, column, overflow_checks)
    ELSE IF suffix THEN sort_by_suffix(v, column, overflow_checks)
    ELSE sort_by_string(v, column, overflow_checks)

\* Lines 212-220: the sort.
Sort ==
    /\ pc = "loaded"
    /\ ~check_sorted
    /\ \E overflow_checks \in BOOLEAN :
          \E r \in SortOutcomes(lines, overflow_checks) :
             IF r.ok
             THEN /\ lines' = r.v
                  /\ sorted' = r.v
                  /\ pc' = "sorted"
                  /\ panic' = panic
             ELSE /\ panic' = r.msg
                  /\ pc' = "panicked"
                  /\ UNCHANGED <<lines, sorted>>
    /\ UNCHANGED <<args, input, output, written, verdict, call, ret>>

\* Lines 222-224.
Dedup ==
    /\ pc = "sorted"
    /\ unique
    /\ lines' = dedup(lines)
    /\ pc' = "deduped"
    /\ UNCHANGED <<args, input, sorted, output, written, verdict, panic, call, ret>>

\* main is past line 224.
PastDedup == pc = "deduped" \/ (pc = "sorted" /\ ~unique)

\* Lines 226-228.
Reverse ==
    /\ PastDedup
    /\ reverse_flag
    /\ lines' = reverse(lines)
    /\ pc' = "reversed"
    /\ UNCHANGED <<args, input, sorted, output, written, verdict, panic, call, ret>>

\* main is past line 228.
PastReverse == pc = "reversed" \/ (PastDedup /\ ~reverse_flag)

\* Lines 230-232: the lines are joined and written.
Write ==
    /\ PastReverse
    /\ output' = join(lines, <<"\n">>)
    /\ written' = TRUE
    /\ pc' = "done"
    /\ UNCHANGED <<args, lines, input, sorted, verdict, panic, call, ret>>

\* Line 231: File::create or write_all fails and main returns the error.
WriteFails ==
    /\ PastReverse
    /\ pc' = "io_error"
    /\ UNCHANGED <<args, lines, input, sorted, output, written, verdict, panic, call, ret>>

Next ==
    \/ ParseArgs
    \/ OpenFails
    \/ Load
    \/ Check
    \/ Sort
    \/ Dedup
    \/ Reverse
    \/ Write
    \/ WriteFails

Spec == Init /\ [][Next]_vars

-----------------------------------------------------------------------------
(* A call of parse_with_suffix on every key of a bounded alphabet. *)

SuffixAlphabet == {"1", "5", ".", "-", "K", "m", "G", "X", "n", "a", EAcute}

StringsUpTo(alphabet, n) == UNION {[1..l -> alphabet] : l \in 0..n}

InitSuffix ==
    /\ pc = "call"
    /\ call \in {[fn |-> "parse_with_suffix", s |-> s, column |-> NoColumn] :
                    s \in StringsUpTo(SuffixAlphabet, MaxKeyLen)}
    /\ ret = NotCalled
    /\ args = [flags |-> {}, k |-> <<"1">>]
    /\ lines = <<>> /\ input = <<>> /\ sorted = <<>>
    /\ output = <<>> /\ written = FALSE /\ verdict = "" /\ panic = ""

CallParseWithSuffix ==
    /\ pc = "call"
    /\ call.fn = "parse_with_suffix"
    /\ ret' = parse_with_suffix(call.s)
    /\ pc' = "returned"
    /\ UNCHANGED <<args, lines, input, sorted, output, written, verdict, panic, call>>

NextSuffix == CallParseWithSuffix

SpecSuffix == InitSuffix /\ [][NextSuffix]_vars

-----------------------------------------------------------------------------
(* A call of get_column_value on every line of a bounded alphabet and every column. *)

\* The largest column index of a call.
MaxColumn == 3

ExtractAlphabet == {"a", "b", " ", "\t"}

InitExtract ==
    /\ pc = "call"
    /\ call \in {[fn |-> "get_column_value", s |-> s, column |-> c] :
                    s \in StringsUpTo(ExtractAlphabet, MaxKeyLen),
                    c \in {NoColumn} \cup (0..MaxColumn)}
    /\ ret = NotCalled
    /\ args = [flags |-> {}, k |-> <<"1">>]
    /\ lines = <<>> /\ input = <<>> /\ sorted = <<>>
    /\ output = <<>> /\ written = FALSE /\ verdict = "" /\ panic = ""

CallGetColumnValue ==
    /\ pc = "call"
    /\ call.fn = "get_column_value"
    /\ \E overflow_checks \in BOOLEAN :
          ret' = get_column_value(call.s, call.column, overflow_checks)
    /\ pc' = "returned"
    /\ UNCHANGED <<args, lines, input, sorted, output, written, verdict, panic, call>>

NextExtract == CallGetColumnValue

SpecExtract == InitExtract /\ [][NextExtract]_vars

-----------------------------------------------------------------------------
(* The claims. *)

\* The key of a line in a run whose extraction did not panic.
KeyOf(line) == get_column_value(line, column, FALSE).v

\* The value of the key of line a is strictly less than that of line b, under the
\* ordering mode of the run.
ModeLt(a, b) ==
    CASE numeric -> FLt(parse_numeric(KeyOf(a)), parse_numeric(KeyOf(b)))
      [] ~numeric /\ month -> month_position(KeyOf(a)) < month_position(KeyOf(b))
      [] ~numeric /\ ~month /\ suffix ->
            /\ parse_with_suffix(KeyOf(a)).k # "panic"
            /\ parse_with_suffix(KeyOf(b)).k # "panic"
            /\ FLt(parse_with_suffix(KeyOf(a)), parse_with_suffix(KeyOf(b)))
      [] OTHER -> StrLt(KeyOf(a), KeyOf(b))

HasDecreasingPair(v) == \E i \in 1..(Len(v) - 1) : ModeLt(v[i + 1], v[i])

HasIncreasingPair(v) == \E i \in 1..(Len(v) - 1) : ModeLt(v[i], v[i + 1])

\* The ascending Check form of the mode of the run.  The source has no check form for
\* Lexicographic: there it is the scan of adjacent pairs that the other three make.
AscendingCheck(v, overflow_checks) ==
    CASE numeric -> check_sorted_by_numeric(v, column, FALSE, overflow_checks)
      [] ~numeric /\ month -> check_sorted_by_month(v, column, FALSE, overflow_checks)
      [] ~numeric /\ ~month /\ suffix ->
            check_sorted_by_suffix(v, column, FALSE, overflow_checks)
      [] OTHER -> Ok(~HasDecreasingPair(v))

C2_SortNeverIncomparable ==
    ~(pc = "panicked" /\ ~check_sorted /\ (numeric \/ suffix) /\ panic = UnwrapMsg)

\* C3: get_column_value never panics, and returns the column-th token when there is
\* one and the line otherwise.
C3_ExtractTotal ==
    pc = "returned" =>
        /\ ret.ok
        /\ ret.v = IF call.column >= 1 /\ call.column <= Len(SplitWhitespace(call.s))
                   THEN SplitWhitespace(call.s)[call.column]
                   ELSE call.s

\* C4, as stated: check mode prints "Lines are sorted." exactly when no adjacent pair
\* of keys strictly decreases.
C4_VerdictIsAscendingCheck ==
    pc = "done" /\ check_sorted =>
        /\ verdict \in {"Lines are sorted.", "Lines are not sorted."}
        /\ verdict = "Lines are sorted." <=> ~HasDecreasingPair(lines)

\* C4, amended: check mode prints "Lines are sorted." exactly when no adjacent pair of
\* keys strictly decreases, without -r, or strictly increases, with -r; it writes no
\* output file.
C4_VerdictIsCheckInDirection ==
    pc = "done" /\ check_sorted =>
        /\ verdict \in {"Lines are sorted.", "Lines are not sorted."}
        /\ verdict = "Lines are sorted." <=>
              ~(IF reverse_flag THEN HasIncreasingPair(lines) ELSE HasDecreasingPair(lines))
        /\ ~written
        /\ lines = input

C4_Witness ==
    /\ pc = "done" /\ check_sorted /\ reverse_flag
    /\ HasDecreasingPair(lines)
    /\ verdict = "Lines are sorted."

ModeFlags == args.flags \cap {"n", "M", "h"}

RunStarts(s) == {i \in 1..Len(s) : i = 1 \/ s[i] # s[i - 1]}

\* s with each run of equal adjacent lines collapsed to its first line.
Collapsed(s) ==
    [j \in 1..Cardinality(RunStarts(s)) |->
        s[CHOOSE i \in RunStarts(s) : Cardinality({x \in RunStarts(s) : x <= i}) = j]]

Backwards(s) == [i \in 1..Len(s) |-> s[Len(s) + 1 - i]]

IsPermutationOf(a, b) ==
    /\ Len(a) = Len(b)
    /\ \E p \in Perms[Len(a)] : \A i \in 1..Len(a) : a[i] = b[p[i]]

CollapsedIf(s, on) == IF on THEN Collapsed(s) ELSE s

BackwardsIf(s, on) == IF on THEN Backwards(s) ELSE s

\* C6: the lines written are the loaded lines sorted by the mode, then under -u with
\* each run of equal adjacent lines collapsed to one, then under -r backwards.
C6_WrittenSequence ==
    written =>
        /\ IsPermutationOf(sorted, input)
        /\ ~HasDecreasingPair(sorted)
        /\ lines = BackwardsIf(CollapsedIf(sorted, unique), reverse_flag)
        /\ output = join(lines, <<"\n">>)

C6_Witness ==
    /\ written /\ unique /\ reverse_flag
    /\ Len(sorted) = 3 /\ Len(lines) = 2
    /\ sorted # input

\* The claim of C7 on a key: r is its value.
SuffixValueOf(s) ==
    IF s = <<>> THEN F64_MIN
    ELSE IF Len(s) = 1 THEN unwrap_or(ParseF64(s), F64_MIN)
    ELSE LET v == unwrap_or(ParseF64(SubSeq(s, 1, Len(s) - 1)), Norm(0, 0))
             last == s[Len(s)]
         IN IF last \in {"K", "k"} THEN Scale(v, 3)
            ELSE IF last \in {"M", "m"} THEN Scale(v, 6)
            ELSE IF last \in {"G", "g"} THEN Scale(v, 9)
            ELSE v

\* C7: parse_with_suffix returns, for every key, the sentinel, the plain parse or the
\* scaled prefix as the key has none, one or more characters.
C7_SuffixValue == pc = "returned" => ret = SuffixValueOf(call.s)

\* C7 on the keys whose last character is one byte wide: there it holds.
C7_SuffixValueOneByteLast ==
    pc = "returned" /\ call.s # <<>> /\ Utf8Len(call.s[Len(call.s)]) = 1
        => ret = SuffixValueOf(call.s)

\* r is the month rank of key, as C8 states it.
IsMonthRank(key, r) ==
    \/ r = 13 /\ \A i \in 1..12 : ~Contains(key, MONTHS[i])
    \/ /\ r \in 0..11
       /\ Contains(key, MONTHS[r + 1])
       /\ \A i \in 1..r : ~Contains(key, MONTHS[i])

\* C8: the rank of a key is the index of the first abbreviation of the list that it
\* contains, 13 if it contains none, and a month sort leaves no line without a month
\* before a line with one.
C8_MonthRank ==
    pc = "sorted" /\ month =>
        /\ \A i \in 1..Len(lines) : IsMonthRank(KeyOf(lines[i]), month_position(KeyOf(lines[i])))
        /\ \A i, j \in 1..Len(lines) :
              /\ i < j
              /\ \A m \in 1..12 : ~Contains(KeyOf(lines[i]), MONTHS[m])
              => \A m \in 1..12 : ~Contains(KeyOf(lines[j]), MONTHS[m])

C8_Witness ==
    /\ pc = "sorted" /\ month /\ Len(lines) = 3 /\ lines # input
    /\ KeyOf(lines[1]) = <<"D", "e", "c", "J", "a", "n">>
    /\ month_position(KeyOf(lines[2])) = 8
    /\ month_position(KeyOf(lines[3])) = 13

PlainInteger(key) == key # <<>> /\ AllDigits(key)

\* C9: a suffix sort of lines whose keys are all plain non-negative integers leaves
\* them in an order the ascending numeric check accepts.
C9_SuffixSortIsNumeric ==
    /\ pc = "sorted" /\ suffix
    /\ \A i \in 1..Len(lines) : PlainInteger(KeyOf(lines[i]))
    => check_sorted_by_numeric(lines, column, FALSE, FALSE) = Ok(TRUE)

\* C10, as stated: under -u no two lines written are equal.
C10_NoEqualLines ==
    written /\ unique =>
        \A i, j \in 1..Len(lines) : i # j => lines[i] # lines[j]

\* C10, amended: under -u no two adjacent lines written are equal, and the lines
\* written are, as a set, the lines loaded.
C10_NoEqualAdjacentLines ==
    written /\ unique =>
        /\ \A i \in 1..(Len(lines) - 1) : lines[i] # lines[i + 1]
        /\ {lines[i] : i \in 1..Len(lines)} = {input[i] : i \in 1..Len(input)}

C10_Witness ==
    /\ written /\ unique /\ ~reverse_flag
    /\ Len(sorted) = 3 /\ Len(lines) = 3 /\ lines[1] = lines[3]

====
